---------------------------- MODULE Spec2Model ----------------------------
(***************************************************************************)
(* A model of the expandable_grid crate: ExpandableGrid<T> (a dense,       *)
(* row-major 2d buffer addressed by signed coordinates), its growth        *)
(* operations expand_to_fit_point / expand_to_fit_box, the reallocation    *)
(* change_size, the coordinate translator index_of / get / get_mut, and    *)
(* the subchunk mapping subchunk_index_of.                                 *)
(*                                                                         *)
(* Vector2<_> is a record [x, y].  Box<[T]> is a sequence; the 0-based     *)
(* position i of the source is element i + 1 of the sequence.              *)
(***************************************************************************)
EXTENDS Integers, Sequences, FiniteSets, TLC

VARIABLES
    size, origin, data,  \* the fields of the grid
    panicked,            \* a call ended in a panic
    last,                \* the call in progress or just made, or Idle
    sub_index,           \* subchunk_index_of: the fine coordinate,
    sub_extent,          \*   T::SUBCHUNK_SIZE,
    sub_result           \*   and the result, once computed

vars == <<size, origin, data, panicked, last,
          sub_index, sub_extent, sub_result>>

(***************************************************************************)
(* Bounds of the model.                                                    *)
(***************************************************************************)
\* Largest |coordinate| of a constructor origin, a box origin, a point or a
\* written index.
MaxCoord == 1
\* Largest |offset| given to change_size.
MaxOffset == 2
\* Largest width/height given to with_size or to a box.
MaxBox == 2
\* Calls are explored from every grid of at most MaxDim x MaxDim and MaxCells
\* cells, with |origin| <= MaxOrigin and at most MaxMarks written cells; the
\* grid a call produces may be larger.  MaxDim is also the largest
\* width/height given to change_size.
MaxDim == 2
MaxCells == 4
MaxOrigin == 1
MaxMarks == 1
\* Radius R of the points of the growth-only specification.
Radius == 1
\* Largest |fine coordinate| and largest tile extent of the subchunk mapping.
MaxFine == 17
MaxExtent == 16
\* usize / isize are modelled UsizeBits wide (the arithmetic is the same at
\* 64 bits; only the wrap-around point moves).
UsizeBits == 8

USIZE_MOD == 2 ^ UsizeBits
ISIZE_LIMIT == 2 ^ (UsizeBits - 1)

\* T is generic (only Clone is used): one fill value, one written value.
Fills == {0}
Marks == {1}
\* Option<T>: None, or Some(v).
None == <<>>
Some(v) == <<v>>
Unwrap(o) == o[1]

Vec(a, b) == [x |-> a, y |-> b]
VecAdd(a, b) == Vec(a.x + b.x, a.y + b.y)
VecSub(a, b) == Vec(a.x - b.x, a.y - b.y)
VecNeg(a) == Vec(-a.x, -a.y)
Max(a, b) == IF a >= b THEN a ELSE b

\* `n as isize` and `n as usize`.
AsIsize(n) == IF n >= ISIZE_LIMIT THEN n - USIZE_MOD ELSE n
AsUsize(n) == IF n < 0 THEN n + USIZE_MOD ELSE n
\* usize arithmetic of a build without overflow checks.
WrapUsize(n) == n % USIZE_MOD

(***************************************************************************)
(* util.rs                                                                 *)
(***************************************************************************)
\* A faulty variant: the grid is quadrupled where it should be doubled.
calculate_exponential_distance_quadrupling(distance, current_size) ==
    LET minimum_size == current_size + AsUsize(distance)
        new_size == Max(minimum_size, current_size * 4)
    IN  new_size - current_size

calculate_exponential_distance(distance, current_size) ==
    LET minimum_size == current_size + AsUsize(distance)
        new_size == Max(minimum_size, current_size * 2)
    IN  new_size - current_size

usize_vec_to_isize(vector) == Vec(AsIsize(vector.x), AsIsize(vector.y))

isize_vec_to_usize_saturating(vector) ==
    Vec(IF vector.x < 0 THEN 0 ELSE AsUsize(vector.x),
        IF vector.y < 0 THEN 0 ELSE AsUsize(vector.y))

(***************************************************************************)
(* expandable_grid.rs: constructors                                        *)
(***************************************************************************)
Grid(s, o, d) == [size |-> s, origin |-> o, data |-> d]

\* std::iter::repeat(fill.clone()).take(n).collect()
Repeat(fill, n) == [i \in 1..n |-> fill]

new == Grid(Vec(0, 0), Vec(0, 0), <<>>)

\* A faulty variant: the buffer is sized by the width alone.
with_size_by_width(size_, origin_, fill) ==
    Grid(size_, origin_, Repeat(fill, size_.x * size_.x))

with_size(size_, origin_, fill) ==
    Grid(size_, origin_, Repeat(fill, size_.x * size_.y))

(***************************************************************************)
(* expandable_grid.rs: coordinate translation                              *)
(***************************************************************************)
\* A faulty variant: rows are strided by the height.
vector_to_1d_index_by_height(self, index) == index.x + index.y * self.size.y

vector_to_1d_index(self, index) == index.x + index.y * self.size.x

index_of(self, index) ==
    LET absolute_index == VecSub(index, self.origin)
    IN  IF absolute_index.x < 0 \/ absolute_index.y < 0
        THEN None
        ELSE LET absolute == Vec(AsUsize(absolute_index.x), AsUsize(absolute_index.y))
             IN  IF absolute.x >= self.size.x \/ absolute.y >= self.size.y
                 THEN None
                 ELSE Some(vector_to_1d_index(self, absolute))

\* get / get_mut: Some(&self.data[self.index_of(index)?]).  The slice index
\* self.data[i] panics when i is not a position of the buffer.
get_panics(self, index) ==
    LET i == index_of(self, index)
    IN  i # None /\ Unwrap(i) >= Len(self.data)

get(self, index) ==
    LET i == index_of(self, index)
    IN  IF i = None THEN None ELSE Some(self.data[Unwrap(i) + 1])

(***************************************************************************)
(* expandable_grid.rs: change_size                                         *)
(*                                                                         *)
(* The result of a call is [grid, panicked, resized]: the grid the call    *)
(* leaves behind, whether it ended in a panic, and whether change_size     *)
(* ran.  `checks` says whether the build checks integer overflow (the      *)
(* debug profile does, the release profile wraps).                         *)
(***************************************************************************)
Outcome(g, p, r) == [grid |-> g, panicked |-> p, resized |-> r]

new_line_start(new_size, y) == WrapUsize(y * new_size.x)

old_line_start(self, offset, y) == WrapUsize((y + offset.y) * self.size.x)

new_index(new_size, x, y) == WrapUsize(x + new_line_start(new_size, y))

\* A faulty variant: the x offset is left out of the source position.
old_index_without_offset(self, offset, x, y) ==
    WrapUsize(x + old_line_start(self, offset, y))

old_index(self, offset, x, y) ==
    WrapUsize((x + offset.x) + old_line_start(self, offset, y))

\* The offsets of size and of size + origin.
corner_offset_of(old_size, new_size, offset) ==
    LET relative_size ==
            VecSub(usize_vec_to_isize(new_size), usize_vec_to_isize(old_size))
    IN  VecAdd(offset, relative_size)

\* `start`: where the old bounds begin in the new buffer.
copy_start(offset) == isize_vec_to_usize_saturating(VecNeg(offset))

\* `end`: where the old bounds end in the new buffer, in a build that wraps.
copy_end(new_size, corner_offset) ==
    LET sub == isize_vec_to_usize_saturating(corner_offset)
    IN  Vec(WrapUsize(new_size.x - sub.x), WrapUsize(new_size.y - sub.y))

\* The subtraction of `end` overflows (a panic in a build that checks
\* overflow).
copy_end_overflows(new_size, corner_offset) ==
    LET sub == isize_vec_to_usize_saturating(corner_offset)
    IN  sub.x > new_size.x \/ sub.y > new_size.y

\* Whether the call reaches the overflow of `end`.
change_size_overflows(self, new_size, offset) ==
    LET old_size == IF Len(self.data) = 0 THEN new_size ELSE self.size
    IN  copy_end_overflows(new_size,
                           corner_offset_of(old_size, new_size, offset))

change_size(self, new_size, offset, fill, checks) ==
    LET \* The empty grid is replaced by with_size(..), and the method goes on.
        self1 == IF Len(self.data) = 0
                 THEN with_size(new_size, offset, fill)
                 ELSE self
        corner_offset == corner_offset_of(self1.size, new_size, offset)
        fresh == Repeat(fill, new_size.x * new_size.y)
        start == copy_start(offset)
        end == copy_end(new_size, corner_offset)
        rows == start.y .. (end.y - 1)
        cols == start.x .. (end.x - 1)
        \* checked_add_signed(..).expect(..)
        RowFault(y) == (y + offset.y) \notin 0 .. (USIZE_MOD - 1)
        CellFault(x, y) ==
            \/ (x + offset.x) \notin 0 .. (USIZE_MOD - 1)
            \/ old_index(self1, offset, x, y) >= Len(self1.data)
            \/ new_index(new_size, x, y) >= Len(fresh)
        fault == \E y \in rows : RowFault(y) \/ \E x \in cols : CellFault(x, y)
        \* The copy loops.  Without a fault every x of the window
        \* is below new_size.x, so position i is written from (x, y) alone.
        copied == [i \in 1 .. Len(fresh) |->
                     LET x == (i - 1) % new_size.x
                         y == (i - 1) \div new_size.x
                     IN  IF x \in cols /\ y \in rows
                         THEN self1.data[old_index(self1, offset, x, y) + 1]
                         ELSE fill]
    IN  IF (checks /\ copy_end_overflows(new_size, corner_offset)) \/ fault
        THEN Outcome(self1, TRUE, TRUE)
        ELSE Outcome(Grid(new_size, VecAdd(self1.origin, offset), copied),
                     FALSE, TRUE)

(***************************************************************************)
(* expandable_grid.rs: expand_to_fit_box, expand_to_fit_point              *)
(***************************************************************************)
\* A faulty variant: a box that ends on the far corner counts as beyond it.
expand_axis_touching(box_origin, box_corner, self_origin, area_corner, self_size) ==
    LET low == box_origin < self_origin
        low_distance ==
            calculate_exponential_distance(self_origin - box_origin, self_size)
        high == box_corner >= area_corner
        high_distance ==
            calculate_exponential_distance(box_corner - area_corner, self_size)
    IN  [offset |-> IF low THEN -AsIsize(low_distance) ELSE 0,
         grow |-> (IF low THEN low_distance ELSE 0)
                  + (IF high THEN high_distance ELSE 0),
         expanded |-> low \/ high]

\* The growth of one axis (the x block and the y block of expand_to_fit_box
\* are the same code), as [offset, grow, expanded].
expand_axis(box_origin, box_corner, self_origin, area_corner, self_size) ==
    LET low == box_origin < self_origin
        low_distance ==
            calculate_exponential_distance(self_origin - box_origin, self_size)
        high == box_corner > area_corner
        high_distance ==
            calculate_exponential_distance(box_corner - area_corner, self_size)
    IN  [offset |-> IF low THEN -AsIsize(low_distance) ELSE 0,
         grow |-> (IF low THEN low_distance ELSE 0)
                  + (IF high THEN high_distance ELSE 0),
         expanded |-> low \/ high]

expand_to_fit_box(self, box_origin, box_size, fill, checks) ==
    IF self.size = Vec(0, 0)
    THEN Outcome(Grid(box_size, box_origin,
                      Repeat(fill, box_size.x * box_size.y)), FALSE, FALSE)
    ELSE LET area_corner == VecAdd(usize_vec_to_isize(self.size), self.origin)
             box_corner == VecAdd(usize_vec_to_isize(box_size), box_origin)
             ex == expand_axis(box_origin.x, box_corner.x, self.origin.x,
                               area_corner.x, self.size.x)
             ey == expand_axis(box_origin.y, box_corner.y, self.origin.y,
                               area_corner.y, self.size.y)
             new_size == Vec(self.size.x + ex.grow, self.size.y + ey.grow)
             offset == Vec(ex.offset, ey.offset)
         IN  IF ex.expanded \/ ey.expanded
             THEN change_size(self, new_size, offset, fill, checks)
             ELSE Outcome(self, FALSE, FALSE)

expand_to_fit_point(self, point, fill, checks) ==
    expand_to_fit_box(self, point, Vec(1, 1), fill, checks)

\* *grid.get_mut(index).unwrap() = value, for an index in bounds.
write(self, index, value) ==
    Grid(self.size, self.origin,
         [self.data EXCEPT ![Unwrap(index_of(self, index)) + 1] = value])

(***************************************************************************)
(* subchunk.rs                                                             *)
(***************************************************************************)
Abs(n) == IF n < 0 THEN -n ELSE n
\* isize `/` and `%`: truncation toward zero.
TruncDiv(a, b) ==
    IF (a < 0) = (b < 0) THEN Abs(a) \div Abs(b) ELSE -(Abs(a) \div Abs(b))
TruncRem(a, b) == a - b * TruncDiv(a, b)

\* isize::div_euclid and isize::rem_euclid, as core defines them.
div_euclid(a, rhs) ==
    LET q == TruncDiv(a, rhs)
    IN  IF TruncRem(a, rhs) < 0
        THEN (IF rhs > 0 THEN q - 1 ELSE q + 1)
        ELSE q

rem_euclid(a, rhs) ==
    LET r == TruncRem(a, rhs)
    IN  IF r < 0 THEN r + Abs(rhs) ELSE r

\* A faulty variant: `/` and `%` in place of div_euclid and rem_euclid.
subchunk_index_of_truncating(index, SUBCHUNK_SIZE) ==
    [chunk |-> Vec(TruncDiv(index.x, AsIsize(SUBCHUNK_SIZE.x)),
                   TruncDiv(index.y, AsIsize(SUBCHUNK_SIZE.y))),
     subchunk |-> Vec(AsUsize(TruncRem(index.x, AsIsize(SUBCHUNK_SIZE.x))),
                      AsUsize(TruncRem(index.y, AsIsize(SUBCHUNK_SIZE.y))))]

subchunk_index_of(index, SUBCHUNK_SIZE) ==
    [chunk |-> Vec(div_euclid(index.x, AsIsize(SUBCHUNK_SIZE.x)),
                   div_euclid(index.y, AsIsize(SUBCHUNK_SIZE.y))),
     subchunk |-> Vec(AsUsize(rem_euclid(index.x, AsIsize(SUBCHUNK_SIZE.x))),
                      AsUsize(rem_euclid(index.y, AsIsize(SUBCHUNK_SIZE.y))))]

(***************************************************************************)
(* The state machine.                                                      *)
(*                                                                         *)
(* A call is one step: it leaves the grid as the method leaves it and      *)
(* records in `last` the method, its arguments (a, b, fill), whether       *)
(* change_size ran, and the grid before the call (pre).  Return drops the  *)
(* record; the next call starts from there.                                *)
(***************************************************************************)
self == Grid(size, origin, data)

Coords == (-MaxCoord) .. MaxCoord
CoordVecs == {Vec(a, b) : a \in Coords, b \in Coords}
Offsets == (-MaxOffset) .. MaxOffset
OffsetVecs == {Vec(a, b) : a \in Offsets, b \in Offsets}
SizeVecs == {Vec(a, b) : a \in 0 .. MaxBox, b \in 0 .. MaxBox}
DimVecs == {Vec(a, b) : a \in 0 .. MaxDim, b \in 0 .. MaxDim}

Call(op, a, b, fill, resized, pre) ==
    [op |-> op, a |-> a, b |-> b, fill |-> fill, resized |-> resized,
     pre |-> pre]

Idle == Call("idle", Vec(0, 0), Vec(0, 0), 0, FALSE, new)

\* The coordinates of g's bounds and one ring around them.
Near(g) ==
    {Vec(a, b) : a \in (g.origin.x - 1) .. (g.origin.x + g.size.x),
                 b \in (g.origin.y - 1) .. (g.origin.y + g.size.y)}

MarkCount(g) == Cardinality({i \in 1 .. Len(g.data) : g.data[i] \in Marks})

\* The grids calls are explored from.
InBounds(g) ==
    /\ g.size.x <= MaxDim /\ g.size.y <= MaxDim
    /\ g.size.x * g.size.y <= MaxCells
    /\ Abs(g.origin.x) <= MaxOrigin /\ Abs(g.origin.y) <= MaxOrigin
    /\ MarkCount(g) <= MaxMarks

\* An overflow-checking build, and a wrapping one where that differs.
Profiles(g, new_size, offset) ==
    IF change_size_overflows(g, new_size, offset) THEN BOOLEAN ELSE {TRUE}

SubIdle ==
    /\ sub_index = Vec(0, 0)
    /\ sub_extent = Vec(1, 1)
    /\ sub_result = None

Finish(out, op, a, b, fill) ==
    /\ size' = out.grid.size
    /\ origin' = out.grid.origin
    /\ data' = out.grid.data
    /\ panicked' = out.panicked
    /\ last' = Call(op, a, b, fill, out.resized, self)
    /\ UNCHANGED <<sub_index, sub_extent, sub_result>>

Ready == last.op = "idle" /\ ~panicked

InitNew ==
    /\ size = new.size /\ origin = new.origin /\ data = new.data
    /\ last = Call("new", Vec(0, 0), Vec(0, 0), 0, FALSE, new)

InitWithSize ==
    \E s \in SizeVecs, o \in CoordVecs, fill \in Fills :
        /\ size = with_size(s, o, fill).size
        /\ origin = with_size(s, o, fill).origin
        /\ data = with_size(s, o, fill).data
        /\ last = Call("with_size", o, s, fill, FALSE, new)

Init ==
    /\ InitNew \/ InitWithSize
    /\ panicked = FALSE
    /\ SubIdle

Return ==
    /\ last.op # "idle"
    /\ ~panicked
    /\ InBounds(self)
    /\ last' = Idle
    /\ UNCHANGED <<size, origin, data, panicked, sub_index, sub_extent,
                   sub_result>>

ExpandToFitPoint ==
    /\ Ready
    /\ \E point \in CoordVecs, fill \in Fills :
          Finish(expand_to_fit_point(self, point, fill, TRUE),
                 "expand_to_fit_point", point, Vec(1, 1), fill)

ExpandToFitBox ==
    /\ Ready
    /\ \E box_origin \in CoordVecs, box_size \in SizeVecs, fill \in Fills :
          Finish(expand_to_fit_box(self, box_origin, box_size, fill, TRUE),
                 "expand_to_fit_box", box_origin, box_size, fill)

ChangeSize ==
    /\ Ready
    /\ \E new_size \in DimVecs, offset \in OffsetVecs, fill \in Fills :
          \E checks \in Profiles(self, new_size, offset) :
              Finish(change_size(self, new_size, offset, fill, checks),
                     "change_size", offset, new_size, fill)

GetMutWrite ==
    /\ Ready
    /\ \E index \in CoordVecs, value \in Marks \cup Fills :
        /\ index_of(self, index) # None
        /\ ~get_panics(self, index)
        /\ Finish(Outcome(write(self, index, value), FALSE, FALSE),
                  "get_mut", index, Vec(0, 0), value)

\* grid.get(index), for the coordinates of the bounds and the ring around
\* them.
Get ==
    /\ Ready
    /\ \E index \in Near(self) :
          Finish(Outcome(self, get_panics(self, index), FALSE),
                 "get", index, Vec(0, 0), 0)

Next ==
    \/ ExpandToFitPoint
    \/ ExpandToFitBox
    \/ ChangeSize
    \/ GetMutWrite
    \/ Get
    \/ Return

Spec == Init /\ [][Next]_vars

(***************************************************************************)
(* Growth only, from new(), by points of [-Radius, Radius]^2 (the run of   *)
(* the test grid_expands_to_fit_points).                                   *)
(***************************************************************************)
RadiusVecs ==
    {Vec(a, b) : a \in (-Radius) .. Radius, b \in (-Radius) .. Radius}

InitGrow ==
    /\ InitNew
    /\ panicked = FALSE
    /\ SubIdle

GrowToFitPoint ==
    /\ ~panicked
    /\ \E point \in RadiusVecs, fill \in Fills :
          Finish(expand_to_fit_point(self, point, fill, TRUE),
                 "expand_to_fit_point", point, Vec(1, 1), fill)

NextGrow == GrowToFitPoint

SpecGrow == InitGrow /\ [][NextGrow]_vars

(***************************************************************************)
(* subchunk_index_of, applied to every fine coordinate and tile extent of  *)
(* the bounds.                                                             *)
(***************************************************************************)
FineVecs ==
    {Vec(a, b) : a \in (-MaxFine) .. MaxFine, b \in (-MaxFine) .. MaxFine}
ExtentVecs == {Vec(a, b) : a \in 1 .. MaxExtent, b \in 1 .. MaxExtent}

InitSub ==
    /\ size = new.size /\ origin = new.origin /\ data = new.data
    /\ last = Idle
    /\ panicked = FALSE
    /\ sub_index \in FineVecs
    /\ sub_extent \in ExtentVecs
    /\ sub_result = None

SubchunkIndexOf ==
    /\ sub_result = None
    /\ sub_result' = Some(subchunk_index_of(sub_index, sub_extent))
    /\ UNCHANGED <<size, origin, data, panicked, last, sub_index, sub_extent>>

NextSub == SubchunkIndexOf

SpecSub == InitSub /\ [][NextSub]_vars

(***************************************************************************)
(* Properties.                                                             *)
(***************************************************************************)
Expands == last.op \in {"expand_to_fit_point", "expand_to_fit_box"}

\* c is inside [origin, origin + size) of g.
Inside(g, c) ==
    /\ g.origin.x <= c.x /\ c.x < g.origin.x + g.size.x
    /\ g.origin.y <= c.y /\ c.y < g.origin.y + g.size.y

Corners(box_origin, box_size) ==
    {box_origin,
     VecAdd(box_origin, Vec(box_size.x - 1, 0)),
     VecAdd(box_origin, Vec(0, box_size.y - 1)),
     VecAdd(box_origin, Vec(box_size.x - 1, box_size.y - 1))}

BoxInside(g, box_origin, box_size) ==
    /\ g.origin.x <= box_origin.x
    /\ box_origin.x + box_size.x <= g.origin.x + g.size.x
    /\ g.origin.y <= box_origin.y
    /\ box_origin.y + box_size.y <= g.origin.y + g.size.y

\* C1: after expand_to_fit_box(box_origin, box_size, fill) with a box of
\* width >= 1 and height >= 1 (expand_to_fit_point: the box (1, 1) at the
\* point), on a grid from new() or with_size(..) of any size, index_of is
\* Some at the four corners of the box.
C1_Coverage ==
    (Expands /\ last.b.x >= 1 /\ last.b.y >= 1)
        => /\ ~panicked
           /\ \A c \in Corners(last.a, last.b) : index_of(self, c) # None

\* C2: every coordinate that get() found before expand_to_fit_point /
\* expand_to_fit_box is found after the call, with the same value.
C2_ContentPreserved ==
    Expands
        => /\ ~panicked
           /\ \A c \in Near(last.pre) :
                 (~get_panics(last.pre, c) /\ get(last.pre, c) # None)
                     => /\ ~get_panics(self, c)
                        /\ get(self, c) = get(last.pre, c)

\* C2 witness: a call grew x on the low side and y on the high side, and a
\* written cell of the grid before the call is read back after it.
C2_Witness ==
    /\ Expands
    /\ last.resized
    /\ origin.x < last.pre.origin.x
    /\ origin.y = last.pre.origin.y
    /\ size.y > last.pre.size.y
    /\ \E c \in Near(last.pre) :
          /\ get(last.pre, c) \in {Some(m) : m \in Marks}
          /\ get(self, c) = get(last.pre, c)

\* C3: change_size(new_size, offset, fill) on a grid without cells
\* completes and leaves the grid equal to with_size(new_size, offset, fill).
C3_EmptyResizeIsConstruction ==
    (last.op = "change_size" /\ Len(last.pre.data) = 0)
        => /\ ~panicked
           /\ self = with_size(last.b, last.a, last.fill)

\* C4: change_size(new_size, offset, fill) on a grid with cells completes
\* with size = new_size and origin = old origin + offset, and every
\* coordinate of the new bounds holds its old value if it was inside the
\* old bounds and fill otherwise.
C4_ResizeResult ==
    (last.op = "change_size" /\ Len(last.pre.data) > 0)
        => /\ ~panicked
           /\ size = last.b
           /\ origin = VecAdd(last.pre.origin, last.a)
           /\ \A c \in Near(self) :
                 Inside(self, c)
                     => /\ ~get_panics(self, c)
                        /\ get(self, c) = IF Inside(last.pre, c)
                                          THEN get(last.pre, c)
                                          ELSE Some(last.fill)

\* C5: from new(), after any sequence of expand_to_fit_point calls with
\* points of [-R, R]^2, width and height are at most 4 * (2R + 1).
C5_BoundedOverAllocation ==
    /\ size.x <= 4 * (2 * Radius + 1)
    /\ size.y <= 4 * (2 * Radius + 1)

\* C5 witness: a point call left the grid wider than the whole range of
\* the points.
C5_Witness ==
    /\ last.op = "expand_to_fit_point"
    /\ last.resized
    /\ last.pre.size.x >= 1 /\ size.x >= 2 * last.pre.size.x

\* C6: for the coordinate c given to get, index_of(c) is None exactly when
\* c is outside [origin, origin + size), and otherwise
\* Some((c.x - origin.x) + (c.y - origin.y) * size.x), a position of the
\* buffer; get(c) is Some exactly when index_of(c) is.
C6_AbsencePrecision ==
    last.op = "get"
        => /\ IF Inside(self, last.a)
              THEN /\ index_of(self, last.a)
                        = Some((last.a.x - origin.x)
                               + (last.a.y - origin.y) * size.x)
                   /\ Unwrap(index_of(self, last.a)) < Len(data)
              ELSE index_of(self, last.a) = None
           /\ ~panicked
           /\ (get(self, last.a) # None) <=> (index_of(self, last.a) # None)

\* C6 witness: get on a 2 x 2 grid away from (0, 0), one column left of
\* the bounds in the second row: the row-major formula alone would give
\* position 1, index_of and get give None.
C6_Witness ==
    /\ last.op = "get"
    /\ size = Vec(2, 2)
    /\ origin.x < 0 /\ origin.y > 0
    /\ last.a = VecAdd(origin, Vec(-1, 1))
    /\ (last.a.x - origin.x) + (last.a.y - origin.y) * size.x = 1
    /\ index_of(self, last.a) = None
    /\ get(self, last.a) = None

\* C7: the buffer length is size.x * size.y in every state.
C7_BufferSize == Len(data) = size.x * size.y

\* C7 witness: change_size reallocated a grid with cells to another size.
C7_Witness ==
    /\ last.op = "change_size"
    /\ ~panicked
    /\ Len(last.pre.data) > 0
    /\ Len(data) > 0
    /\ Len(data) # Len(last.pre.data)

\* C8: expand_to_fit_box with a box (width, height >= 1) inside the bounds
\* of the grid, and expand_to_fit_point with a point in bounds, call
\* change_size not at all and leave size, origin and every cell unchanged.
C8_NoChangeWhenCovered ==
    (/\ Expands
     /\ last.b.x >= 1 /\ last.b.y >= 1
     /\ BoxInside(last.pre, last.a, last.b))
        => /\ ~panicked
           /\ ~last.resized
           /\ self = last.pre

\* C8 witness: a 2 x 2 box given to a grid that holds it (and a written
\* cell).
C8_Witness ==
    /\ last.op = "expand_to_fit_box"
    /\ last.b = Vec(2, 2)
    /\ BoxInside(last.pre, last.a, last.b)
    /\ MarkCount(last.pre) = 1

\* C9: subchunk_index_of(f) with a tile extent e >= 1 on both axes gives
\* (tile, offset) with 0 <= offset < e and tile * e + offset = f on each
\* axis.
C9_FloorMapping ==
    sub_result # None
        => LET r == Unwrap(sub_result)
           IN  /\ 0 <= r.subchunk.x /\ r.subchunk.x < sub_extent.x
               /\ 0 <= r.subchunk.y /\ r.subchunk.y < sub_extent.y
               /\ r.chunk.x * sub_extent.x + r.subchunk.x = sub_index.x
               /\ r.chunk.y * sub_extent.y + r.subchunk.y = sub_index.y

\* C9 witness: extent (16, 16) and f = (-1, -1) give tile (-1, -1) and
\* offset (15, 15).
C9_Witness ==
    /\ sub_extent = Vec(16, 16)
    /\ sub_index = Vec(-1, -1)
    /\ sub_result = Some([chunk |-> Vec(-1, -1), subchunk |-> Vec(15, 15)])

\* The growth of the claim C10 on one axis: L below, H beyond, from the size
\* s, the origin o, and the box [box_o, box_o + box_s).
LowGrowth(s, o, box_o) == IF box_o < o THEN Max(o - box_o, s) ELSE 0
HighGrowth(s, o, box_o, box_s) ==
    IF box_o + box_s > o + s THEN Max((box_o + box_s) - (o + s), s) ELSE 0

\* C10: on an axis of size s >= 1, expand_to_fit_box leaves the size
\* s + L + H and lowers the origin by exactly L, with L and H from the size
\* before the call.
C10_ExponentialGrowth ==
    Expands
        => /\ last.pre.size.x >= 1
              => LET L == LowGrowth(last.pre.size.x, last.pre.origin.x, last.a.x)
                     H == HighGrowth(last.pre.size.x, last.pre.origin.x,
                                     last.a.x, last.b.x)
                 IN  /\ size.x = last.pre.size.x + L + H
                     /\ origin.x = last.pre.origin.x - L
           /\ last.pre.size.y >= 1
              => LET L == LowGrowth(last.pre.size.y, last.pre.origin.y, last.a.y)
                     H == HighGrowth(last.pre.size.y, last.pre.origin.y,
                                     last.a.y, last.b.y)
                 IN  /\ size.y = last.pre.size.y + L + H
                     /\ origin.y = last.pre.origin.y - L

=============================================================================
